---- MODULE Spec2Model ----
(***************************************************************************)
(* Event-driven single-instrument backtester: the Portfolio ledger         *)
(* (portfolio.py), the execution model (broker.py), the MA-crossover       *)
(* signal generator (strategy.py) and the bar-by-bar loop of main (run.py).*)
(*                                                                         *)
(* Arithmetic.  The program computes in binary floating point; the model   *)
(* computes the same expressions exactly.  Every money amount (cash,       *)
(* prices, commission, equity, notional) is an integer number of ticks,    *)
(* one tick being 1/BPS of a currency unit, and bar prices are whole       *)
(* currency units, so that price * (1 + slippage_bps/10000 * side) is an   *)
(* integer number of ticks.  Fractions (max_position_pct, max_drawdown,    *)
(* drawdown) are records [num, den] with den > 0.                          *)
(***************************************************************************)
EXTENDS Integers, Sequences, FiniteSets, TLC

VARIABLES
    args,           \* run.py parse_args(): cash, slippage_bps, commission, max_position_pct, max_dd, fast, slow
    ohlcv,          \* the loaded bars, a sequence of [Open, Close] (ticks); the index (Date) is the position
    targets,        \* the Series generate_ma_crossover_signals returned
    cash,           \* Portfolio.cash
    position_qty,   \* Portfolio.position_qty
    peak_equity,    \* Portfolio._peak_equity
    kill_switch,    \* Portfolio._kill_switch
    trades,         \* Portfolio.trades
    equity_curve,   \* Portfolio.equity_curve
    pending_target, \* main: pending_target, <<>> for None and <<v>> for the value v
    i,              \* main: the loop index, 1-based
    pc,             \* main: the statement about to run
    raised,         \* the exception that ended the run or the last portfolio call, "" when none
    orders          \* the rebalance_to_target calls made so far, with their arguments and outcome

vars == <<args, ohlcv, targets, cash, position_qty, peak_equity, kill_switch,
          trades, equity_curve, pending_target, i, pc, raised, orders>>

-----------------------------------------------------------------------------
(* Bounds and input domains *)

NumBars == 5
MaxCalls == 3

BPS == 10000

Ticks(p) == p * BPS

Prices == {Ticks(1), Ticks(2)}

Frac(n, d) == [num |-> n, den |-> d]

-----------------------------------------------------------------------------
(* Python arithmetic *)

\* float // float for a non-zero divisor: the floor of the quotient
FloorDiv(a, b) == a \div b

Abs(x) == IF x < 0 THEN 0 - x ELSE x

Max(a, b) == IF a >= b THEN a ELSE b

\* a >= b for two fractions with positive denominators
FracGE(a, b) == a.num * b.den >= b.num * a.den

FracGT(a, b) == a.num * b.den > b.num * a.den

-----------------------------------------------------------------------------
(* broker.py *)

\* apply_slippage: price * (1.0 + slip * side), or ValueError when price <= 0.
\* price is a whole number of currency units, so the product is exact in ticks.
apply_slippage(price, side, slippage_bps) ==
    IF price <= 0
    THEN [raised |-> "ValueError", value |-> 0]
    ELSE [raised |-> "", value |-> (price \div BPS) * (BPS + slippage_bps * side)]

\* simulate_fill: (fill_px, costs), or ValueError when qty <= 0 or the price is not positive
simulate_fill(open_price_next, side, qty, model) ==
    IF qty <= 0
    THEN [raised |-> "ValueError", fill_px |-> 0, costs |-> 0]
    ELSE LET s == apply_slippage(open_price_next, side, model.slippage_bps)
         IN  [raised |-> s.raised, fill_px |-> s.value, costs |-> model.commission]

-----------------------------------------------------------------------------
(* portfolio.py *)

\* Portfolio.__init__: the guard on initial_cash
InitialCashOk(initial_cash) == initial_cash > 0

\* variant: the quotient is rounded up
max_allowed_qty_round_up(limits, equity, price) ==
    0 - FloorDiv(0 - limits.max_position_pct.num * equity, limits.max_position_pct.den * price)

\* Portfolio._max_allowed_qty: int((max_position_pct * equity) // price), price # 0
max_allowed_qty(limits, equity, price) ==
    FloorDiv(limits.max_position_pct.num * equity, limits.max_position_pct.den * price)

\* variant: an exclusive threshold
DrawdownBreachedStrict(dd, limits) == FracGT(dd, limits.max_drawdown)

\* the drawdown threshold test of mark_to_market: dd >= max_drawdown
DrawdownBreached(dd, limits) == FracGE(dd, limits.max_drawdown)

\* variant: the switch follows the current drawdown instead of latching
KillSwitchUnlatched(was, breached) == breached

\* the kill switch of a mark_to_market call (lines 48-49): set on a breach, never cleared
KillSwitchAfter(was, breached) == IF breached THEN TRUE ELSE was

\* variant: the snapshot shows the decision but the ledger's switch is left as it was
mark_to_market_switch_not_stored(p, limits, date, close_price) ==
    LET equity == p.cash + p.position_qty * close_price
        peak   == Max(p.peak_equity, equity)
        dd     == IF peak = 0 THEN Frac(0, 1) ELSE Frac(peak - equity, peak)
        kill   == KillSwitchAfter(p.kill_switch, DrawdownBreached(dd, limits))
    IN  [peak_equity |-> peak,
         kill_switch |-> p.kill_switch,
         snapshot |-> [Date |-> date, Cash |-> p.cash, PositionQty |-> p.position_qty,
                       Close |-> close_price, Equity |-> equity, Drawdown |-> dd,
                       KillSwitch |-> kill]]

\* Portfolio.mark_to_market on the ledger p = [cash, position_qty, peak_equity, kill_switch]:
\* the new peak, the new kill switch and the snapshot appended
mark_to_market(p, limits, date, close_price) ==
    LET equity == p.cash + p.position_qty * close_price
        peak   == Max(p.peak_equity, equity)
        dd     == IF peak = 0 THEN Frac(0, 1) ELSE Frac(peak - equity, peak)
        kill   == KillSwitchAfter(p.kill_switch, DrawdownBreached(dd, limits))
    IN  [peak_equity |-> peak,
         kill_switch |-> kill,
         snapshot |-> [Date |-> date, Cash |-> p.cash, PositionQty |-> p.position_qty,
                       Close |-> close_price, Equity |-> equity, Drawdown |-> dd,
                       KillSwitch |-> kill]]

\* variant: the commission is left out of the cost of a BUY
buy_cost_no_commission(notional, commission) == notional

\* total_cost of a BUY (lines 101, 109)
buy_cost(notional, commission) == notional + commission

\* variant: the commission is left out of the proceeds of a SELL
sell_proceeds_no_commission(notional, commission) == notional

\* what a SELL adds to cash (line 114)
sell_proceeds(notional, commission) == notional - commission

\* variant: the affordable quantity is rounded up
affordable_qty_round_up(cash_, commission, fill_price) ==
    0 - FloorDiv(0 - (cash_ - commission), fill_price)

\* variant: the clamp forgets the commission
affordable_qty_no_commission(cash_, commission, fill_price) == FloorDiv(cash_, fill_price)

\* the affordable quantity of a clamped BUY: int((cash - commission) // fill_price)
affordable_qty(cash_, commission, fill_price) == FloorDiv(cash_ - commission, fill_price)

Trade(date, side, qty, fill_price, notional, commission) ==
    [date |-> date, side |-> side, qty |-> qty, price |-> fill_price,
     notional |-> notional, commission |-> commission]

\* what a call that changes nothing returns: ret is "None", or "" when it raised
NoChange(p, ret, exc) ==
    [cash |-> p.cash, position_qty |-> p.position_qty, trade |-> <<>>, ret |-> ret, raised |-> exc]

\* Portfolio.rebalance_to_target on the ledger p: the new cash and position, the Trade
\* appended (<<>> when none), what the call returned and what it raised
rebalance_to_target(p, limits, date, target_position, open_price, fill_price, commission) ==
    IF p.kill_switch THEN NoChange(p, "None", "")
    ELSE IF target_position \notin {0, 1} THEN NoChange(p, "", "ValueError")
    ELSE IF target_position = 1 /\ open_price = 0 THEN NoChange(p, "", "ZeroDivisionError")
    ELSE
    LET equity      == p.cash + p.position_qty * open_price
        desired_qty == IF target_position = 1
                       THEN max_allowed_qty(limits, equity, open_price)
                       ELSE 0
        delta       == desired_qty - p.position_qty
        side        == IF delta > 0 THEN "BUY" ELSE "SELL"
        qty0        == Abs(delta)
        notional0   == qty0 * fill_price
    IN  IF delta = 0 THEN NoChange(p, "None", "")
        ELSE IF side = "BUY"
        THEN IF buy_cost(notional0, commission) > p.cash
             THEN IF fill_price = 0 THEN NoChange(p, "", "ZeroDivisionError")
                  ELSE LET qty == affordable_qty(p.cash, commission, fill_price)
                           notional == qty * fill_price
                       IN  IF qty <= 0 THEN NoChange(p, "None", "")
                           ELSE [cash |-> p.cash - buy_cost(notional, commission),
                                 position_qty |-> p.position_qty + qty,
                                 trade |-> <<Trade(date, side, qty, fill_price, notional, commission)>>,
                                 ret |-> "Trade", raised |-> ""]
             ELSE [cash |-> p.cash - buy_cost(notional0, commission),
                   position_qty |-> p.position_qty + qty0,
                   trade |-> <<Trade(date, side, qty0, fill_price, notional0, commission)>>,
                   ret |-> "Trade", raised |-> ""]
        ELSE [cash |-> p.cash + sell_proceeds(notional0, commission),
              position_qty |-> p.position_qty - qty0,
              trade |-> <<Trade(date, side, qty0, fill_price, notional0, commission)>>,
              ret |-> "Trade", raised |-> ""]

-----------------------------------------------------------------------------
(* strategy.py *)

RECURSIVE SumLast(_, _, _)
\* the sum of the w closes ending at bar t (t >= w)
SumLast(close, t, w) ==
    IF w = 0 THEN 0 ELSE close[t] + SumLast(close, t - 1, w - 1)

\* close.rolling(w, min_periods=w).mean() is NaN before bar w
RollingDefined(t, w) == t >= w

\* fast_ma > slow_ma at bar t (False when either is NaN); means compared by cross-multiplying
FastAbove(close, t, fast, slow) ==
    /\ RollingDefined(t, fast)
    /\ RollingDefined(t, slow)
    /\ SumLast(close, t, fast) * slow > SumLast(close, t, slow) * fast

\* fast_ma == slow_ma at bar t (False when either is NaN)
FastEqual(close, t, fast, slow) ==
    /\ RollingDefined(t, fast)
    /\ RollingDefined(t, slow)
    /\ SumLast(close, t, fast) * slow = SumLast(close, t, slow) * fast

\* generate_ma_crossover_signals: the target of every bar
generate_ma_crossover_signals(close, fast, slow, long_only) ==
    [t \in 1..Len(close) |->
        LET raw == IF FastAbove(close, t, fast, slow) THEN 1 ELSE 0
        IN  IF long_only THEN raw
            ELSE IF FastEqual(close, t, fast, slow) THEN 0
            ELSE IF raw = 0 THEN 0 - 1 ELSE raw]

-----------------------------------------------------------------------------
(* run.py *)

Closes(bars) == [t \in 1..Len(bars) |-> bars[t].Close]

\* main, line 54: enough bars for the chosen windows
EnoughData(bars, a) == Len(bars) >= Max(a.fast, a.slow) + 2

limits == [max_position_pct |-> args.max_position_pct, max_drawdown |-> args.max_dd]

exec_model == [slippage_bps |-> args.slippage_bps, commission |-> args.commission]

\* the ledger the portfolio's methods read
Ledger == [cash |-> cash, position_qty |-> position_qty,
           peak_equity |-> peak_equity, kill_switch |-> kill_switch]

\* variant: the loop's copy rounds up
loop_max_qty_round_up(equity, open_px) ==
    0 - FloorDiv(0 - limits.max_position_pct.num * equity, limits.max_position_pct.den * open_px)

\* main, line 92: the loop's own copy of the sizing formula
loop_max_qty(equity, open_px) ==
    FloorDiv(limits.max_position_pct.num * equity, limits.max_position_pct.den * open_px)

Order(date, target, open_px, fill_px, comm, delta, ret, exc) ==
    [Date |-> date, target_position |-> target, open_price |-> open_px,
     fill_price |-> fill_px, commission |-> comm, delta |-> delta, ret |-> ret,
     raised |-> exc]

\* the state main holds when the loop starts: the parsed arguments, the loaded bars,
\* the targets of lines 57-58 and the Portfolio of line 62
InitRun(argset, barset) ==
    /\ args \in argset
    /\ ohlcv \in barset
    /\ EnoughData(ohlcv, args)
    /\ InitialCashOk(args.cash)
    /\ targets = generate_ma_crossover_signals(Closes(ohlcv), args.fast, args.slow, TRUE)
    /\ cash = args.cash
    /\ position_qty = 0
    /\ peak_equity = args.cash
    /\ kill_switch = FALSE
    /\ trades = <<>>
    /\ equity_curve = <<>>
    /\ pending_target = <<>>
    /\ i = 1
    /\ pc = "mtm"
    /\ raised = ""
    /\ orders = <<>>

\* main before line 60: arguments parsed, bars loaded, targets generated, no Portfolio yet
InitConstruct(argset, barset) ==
    /\ args \in argset
    /\ ohlcv \in barset
    /\ EnoughData(ohlcv, args)
    /\ targets = generate_ma_crossover_signals(Closes(ohlcv), args.fast, args.slow, TRUE)
    /\ cash = 0
    /\ position_qty = 0
    /\ peak_equity = 0
    /\ kill_switch = FALSE
    /\ trades = <<>>
    /\ equity_curve = <<>>
    /\ pending_target = <<>>
    /\ i = 1
    /\ pc = "construct"
    /\ raised = ""
    /\ orders = <<>>

\* main, lines 60-62: ExecutionModel(...), RiskLimits(...) and Portfolio(...); the two
\* dataclasses check nothing, Portfolio.__init__ raises on initial_cash <= 0
Construct ==
    /\ pc = "construct"
    /\ IF InitialCashOk(args.cash)
       THEN /\ cash' = args.cash
            /\ peak_equity' = args.cash
            /\ pc' = "mtm"
            /\ UNCHANGED raised
       ELSE /\ pc' = "raised"
            /\ raised' = "ValueError"
            /\ UNCHANGED <<cash, peak_equity>>
    /\ position_qty' = 0
    /\ kill_switch' = FALSE
    /\ trades' = <<>>
    /\ equity_curve' = <<>>
    /\ UNCHANGED <<args, ohlcv, targets, pending_target, i, orders>>

\* variant: no snapshot once the switch has tripped
MarkBarSkipKilled ==
    /\ pc = "mtm"
    /\ LET r == mark_to_market(Ledger, limits, i, ohlcv[i].Close)
       IN  /\ peak_equity' = r.peak_equity
           /\ kill_switch' = r.kill_switch
           /\ equity_curve' = IF kill_switch THEN equity_curve
                               ELSE Append(equity_curve, r.snapshot)
    /\ pc' = "exec"
    /\ UNCHANGED <<args, ohlcv, targets, cash, position_qty, trades, pending_target,
                   i, raised, orders>>

\* main, line 76: mark-to-market at the bar's close
MarkBar ==
    /\ pc = "mtm"
    /\ LET r == mark_to_market(Ledger, limits, i, ohlcv[i].Close)
       IN  /\ peak_equity' = r.peak_equity
           /\ kill_switch' = r.kill_switch
           /\ equity_curve' = Append(equity_curve, r.snapshot)
    /\ pc' = "exec"
    /\ UNCHANGED <<args, ohlcv, targets, cash, position_qty, trades, pending_target,
                   i, raised, orders>>

\* an exception leaves main: the run ends with nothing more done
Abort(exc) ==
    /\ pc' = "raised"
    /\ raised' = exc
    /\ UNCHANGED <<cash, position_qty, trades, orders>>

\* variant: the loop places an order on every bar
NoOrderNeededNever(delta) == FALSE

\* main, line 95: `if delta != 0` guards the Execution Model call and the order
NoOrderNeeded(delta) == delta = 0

\* main, lines 79-104: execute the pending target at the bar's open
ExecutePending ==
    /\ pc = "exec"
    /\ IF pending_target = <<>> \/ kill_switch
       THEN /\ pc' = "signal"
            /\ UNCHANGED <<cash, position_qty, trades, raised, orders>>
       ELSE LET open_px == ohlcv[i].Open
                target  == pending_target[1]
            IN  IF open_px = 0 THEN Abort("ZeroDivisionError")
                ELSE
                LET equity      == cash + position_qty * open_px
                    max_qty     == loop_max_qty(equity, open_px)
                    desired_qty == IF target = 1 THEN max_qty ELSE 0
                    delta       == desired_qty - position_qty
                    side        == IF delta > 0 THEN 1 ELSE 0 - 1
                    f           == simulate_fill(open_px, side, Abs(delta), exec_model)
                    r           == rebalance_to_target(Ledger, limits, i, target, open_px,
                                                       f.fill_px, f.costs)
                IN  IF NoOrderNeeded(delta)
                    THEN /\ pc' = "signal"
                         /\ UNCHANGED <<cash, position_qty, trades, raised, orders>>
                    ELSE IF f.raised # "" THEN Abort(f.raised)
                    ELSE IF r.raised # "" THEN Abort(r.raised)
                    ELSE /\ cash' = r.cash
                         /\ position_qty' = r.position_qty
                         /\ trades' = trades \o r.trade
                         /\ orders' = Append(orders, Order(i, target, open_px, f.fill_px,
                                                           f.costs, delta, r.ret, r.raised))
                         /\ pc' = "signal"
                         /\ UNCHANGED raised
    /\ UNCHANGED <<args, ohlcv, targets, peak_equity, kill_switch, equity_curve,
                   pending_target, i>>

\* variant: the next bar's target is stored
StorePendingLookahead ==
    /\ pc = "signal"
    /\ pending_target' = <<targets[IF i < Len(ohlcv) THEN i + 1 ELSE i]>>
    /\ IF i = Len(ohlcv)
       THEN pc' = "done" /\ i' = i
       ELSE pc' = "mtm" /\ i' = i + 1
    /\ UNCHANGED <<args, ohlcv, targets, cash, position_qty, peak_equity, kill_switch,
                   trades, equity_curve, raised, orders>>

\* main, line 107 and the loop header: store the bar's target for the next bar
StorePending ==
    /\ pc = "signal"
    /\ pending_target' = <<targets[i]>>
    /\ IF i = Len(ohlcv)
       THEN pc' = "done" /\ i' = i
       ELSE pc' = "mtm" /\ i' = i + 1
    /\ UNCHANGED <<args, ohlcv, targets, cash, position_qty, peak_equity, kill_switch,
                   trades, equity_curve, raised, orders>>

Next == MarkBar \/ ExecutePending \/ StorePending

NextConstruct == Construct \/ MarkBar \/ ExecutePending \/ StorePending

-----------------------------------------------------------------------------
(* Inputs of the runs checked *)

Args(c, slip, comm, pct, mdd, fast, slow) ==
    [cash |-> c, slippage_bps |-> slip, commission |-> comm, max_position_pct |-> pct,
     max_dd |-> mdd, fast |-> fast, slow |-> slow]

\* a caller other than main: the Portfolio's two methods, called in any order with any
\* arguments; i counts the calls and serves as the date
ApiMarkToMarket ==
    /\ pc = "api"
    /\ i <= MaxCalls
    /\ \E close_price \in {Ticks(4), Ticks(5), Ticks(6)} :
         LET r == mark_to_market(Ledger, limits, i, close_price)
         IN  /\ peak_equity' = r.peak_equity
             /\ kill_switch' = r.kill_switch
             /\ equity_curve' = Append(equity_curve, r.snapshot)
    /\ i' = i + 1
    /\ raised' = ""
    /\ UNCHANGED <<args, ohlcv, targets, cash, position_qty, trades, pending_target,
                   pc, orders>>

ApiRebalance ==
    /\ pc = "api"
    /\ i <= MaxCalls
    /\ \E target \in {0, 1, 2}, open_px \in {Ticks(5), Ticks(20)},
          fill_px \in {Ticks(5), Ticks(30)} :
         LET r == rebalance_to_target(Ledger, limits, i, target, open_px, fill_px,
                                      args.commission)
             delta == IF r.trade = <<>> THEN 0
                      ELSE IF r.trade[1].side = "BUY" THEN r.trade[1].qty
                      ELSE 0 - r.trade[1].qty
         IN  /\ cash' = r.cash
             /\ position_qty' = r.position_qty
             /\ trades' = trades \o r.trade
             /\ raised' = r.raised
             /\ orders' = Append(orders, Order(i, target, open_px, fill_px,
                                               args.commission, delta, r.ret, r.raised))
    /\ i' = i + 1
    /\ UNCHANGED <<args, ohlcv, targets, peak_equity, kill_switch, equity_curve,
                   pending_target, pc>>

NextApi == ApiMarkToMarket \/ ApiRebalance

\* a Portfolio constructed by such a caller (Portfolio.__init__)
InitApi(argset) ==
    /\ args \in argset
    /\ InitialCashOk(args.cash)
    /\ ohlcv = <<>>
    /\ targets = <<>>
    /\ cash = args.cash
    /\ position_qty = 0
    /\ peak_equity = args.cash
    /\ kill_switch = FALSE
    /\ trades = <<>>
    /\ equity_curve = <<>>
    /\ pending_target = <<>>
    /\ i = 1
    /\ pc = "api"
    /\ raised = ""
    /\ orders = <<>>

Windows == {<<1, 2>>, <<2, 1>>}

ArgSet ==
    {Args(Ticks(20), slip, comm, pct, mdd, w[1], w[2]) :
        slip \in {0, 200, 10000}, comm \in {0, Ticks(10)},
        pct \in {Frac(1, 2), Frac(1, 1)}, mdd \in {Frac(1, 5), Frac(1, 1)},
        w \in Windows}

Bars(n, opens, closes) == [1..n -> [Open : opens, Close : closes]]

Init == InitRun(ArgSet, Bars(NumBars, Prices, Prices))

Spec == Init /\ [][Next]_vars

\* runs over a wider range of closes, with a commission that is large against the prices
ArgSetWide == {Args(Ticks(20), 0, Ticks(10), Frac(1, 2), Frac(1, 1), 1, 2)}

InitWide == InitRun(ArgSetWide, Bars(NumBars, Prices, {Ticks(1), Ticks(2), Ticks(3), Ticks(4)}))

SpecWide == InitWide /\ [][Next]_vars

\* runs over the bars load_ohlcv_csv can return: it drops rows with a missing price and
\* keeps rows whose Open is zero or negative
ArgSetRaw == {Args(Ticks(20), 200, Ticks(1), Frac(1, 2), Frac(1, 1), 1, 2)}

InitRaw == InitRun(ArgSetRaw, Bars(NumBars, {Ticks(0 - 1), Ticks(0), Ticks(1)}, Prices))

SpecRaw == InitRaw /\ [][Next]_vars

\* runs whose arguments include the values the command line accepts and the data model
\* forbids, starting before the Portfolio is constructed
ArgSetAny ==
    {Args(c, 0, 0, pct, mdd, 1, 2) :
        c \in {0, Ticks(20)}, pct \in {Frac(1, 2), Frac(3, 2)},
        mdd \in {Frac(0, 1), Frac(1, 1), Frac(2, 1)}}

SpecConstruct ==
    InitConstruct(ArgSetAny, Bars(NumBars, Prices, Prices)) /\ [][NextConstruct]_vars

\* the Portfolio under an arbitrary caller
\* frictionless and costly runs of main together with the arbitrary caller
ArgSetQuiet ==
    {Args(Ticks(20), slip, comm, pct, Frac(1, 1), 1, 3) :
        slip \in {0, 200}, comm \in {0, Ticks(1)}, pct \in {Frac(1, 2), Frac(1, 1)}}

ArgSetApi ==
    {Args(Ticks(100), 0, comm, pct, Frac(1, 5), 1, 2) :
        comm \in {0, Ticks(1)}, pct \in {Frac(1, 4), Frac(1, 1)}}

\* a caller of generate_ma_crossover_signals alone: any closes, windows and mode
ArgSetSignal ==
    {[fast |-> w[1], slow |-> w[2], long_only |-> b] :
        w \in {<<1, 2>>, <<2, 1>>, <<2, 3>>, <<3, 2>>, <<2, 2>>}, b \in BOOLEAN}

InitSignal ==
    /\ args \in ArgSetSignal
    /\ ohlcv \in Bars(NumBars, {Ticks(1)}, {Ticks(1), Ticks(2), Ticks(3)})
    /\ targets = <<>>
    /\ cash = 0
    /\ position_qty = 0
    /\ peak_equity = 0
    /\ kill_switch = FALSE
    /\ trades = <<>>
    /\ equity_curve = <<>>
    /\ pending_target = <<>>
    /\ i = 1
    /\ pc = "signals"
    /\ raised = ""
    /\ orders = <<>>

\* one call of generate_ma_crossover_signals(ohlcv, params, long_only)
GenerateSignals ==
    /\ pc = "signals"
    /\ targets' = generate_ma_crossover_signals(Closes(ohlcv), args.fast, args.slow,
                                                 args.long_only)
    /\ pc' = "signalled"
    /\ UNCHANGED <<args, ohlcv, cash, position_qty, peak_equity, kill_switch, trades,
                   equity_curve, pending_target, i, raised, orders>>

SpecSignal == InitSignal /\ [][GenerateSignals]_vars

SpecAll ==
    /\ \/ InitRun(ArgSetQuiet, Bars(NumBars, Prices, Prices))
       \/ InitApi(ArgSetApi)
    /\ [][Next \/ NextApi]_vars

SpecApi == InitApi(ArgSetApi) /\ [][NextApi]_vars

-----------------------------------------------------------------------------
(* Properties *)

Curve == 1..Len(equity_curve)

\* the signal of bar t computed from the closes of bars 1..t alone
SignalOfPrefix(t) ==
    generate_ma_crossover_signals(SubSeq(Closes(ohlcv), 1, t), args.fast, args.slow, TRUE)[t]

\* the running peak mark_to_market holds after snapshot j
RECURSIVE PeakUpTo(_)
PeakUpTo(j) == IF j = 0 THEN args.cash ELSE Max(PeakUpTo(j - 1), equity_curve[j].Equity)

\* C1: once a snapshot has kill_switch = true, every later snapshot has it too, cash and
\* position_qty keep the values they had at that snapshot, and no trade is dated on or
\* after that bar.
KillSwitchMonotonic ==
    \A j \in Curve :
        equity_curve[j].KillSwitch =>
            /\ kill_switch
            /\ cash = equity_curve[j].Cash
            /\ position_qty = equity_curve[j].PositionQty
            /\ \A k \in Curve : k >= j =>
                   /\ equity_curve[k].KillSwitch
                   /\ equity_curve[k].Cash = equity_curve[j].Cash
                   /\ equity_curve[k].PositionQty = equity_curve[j].PositionQty
            /\ \A n \in 1..Len(trades) : trades[n].date < equity_curve[j].Date

\* a finished run whose switch tripped before the last bar while a position was held and
\* the pending target asked to sell it, and whose drawdown later fell back under the limit
KillSwitchTrippedMidRun ==
    /\ pc = "done"
    /\ position_qty > 0
    /\ \E j \in Curve :
          /\ j < Len(equity_curve)
          /\ equity_curve[j].KillSwitch
          /\ targets[j - 1] = 0
          /\ ~DrawdownBreached(equity_curve[j + 1].Drawdown, limits)

\* C2: position_qty is never negative, in the ledger and in every snapshot.
PositionNonNegative ==
    /\ position_qty >= 0
    /\ \A j \in Curve : equity_curve[j].PositionQty >= 0

\* C3: a BUY made with cash >= 0 leaves cash >= 0.
BuyKeepsCashNonNegative ==
    [][(/\ Len(trades') = Len(trades) + 1
        /\ trades'[Len(trades')].side = "BUY"
        /\ cash >= 0) => cash' >= 0]_vars

\* the clamped BUY of the affordability scenario: 5 wanted at 30 with cash 100 and
\* commission 1, 3 bought, cash 9
ClampedBuyHappened ==
    /\ Len(trades) = 1
    /\ trades[1].side = "BUY"
    /\ trades[1].qty = 3
    /\ trades[1].price = Ticks(30)
    /\ orders[Len(orders)].open_price = Ticks(20)
    /\ args.commission = Ticks(1)
    /\ cash = Ticks(9)

\* C4: cash is never negative, in the ledger and in every snapshot.
CashNonNegative ==
    /\ cash >= 0
    /\ \A j \in Curve : equity_curve[j].Cash >= 0

\* C5: the target of every rebalance_to_target call made at bar t is the signal of bar
\* t-1, computed from closes up to t-1; nothing executes on the first bar; the target
\* stored on the last bar is never executed.
OneBarLag ==
    /\ \A n \in 1..Len(orders) :
          /\ orders[n].Date \in 2..Len(ohlcv)
          /\ orders[n].target_position = SignalOfPrefix(orders[n].Date - 1)
          /\ n > 1 => orders[n - 1].Date < orders[n].Date
    /\ \A n \in 1..Len(trades) : trades[n].date \in 2..Len(ohlcv)
    /\ pc = "exec" => pending_target = IF i = 1 THEN <<>> ELSE <<SignalOfPrefix(i - 1)>>
    /\ pc = "done" =>
          /\ pending_target = <<SignalOfPrefix(Len(ohlcv))>>
          /\ Len(orders) <= Len(ohlcv) - 1

\* a finished run that executed a target of 1 and later a target of 0, and whose last
\* bar stored a target of 1
LaggedOrdersExecuted ==
    /\ pc = "done"
    /\ pending_target = <<1>>
    /\ \E m, n \in 1..Len(orders) :
          /\ m < n
          /\ orders[m].target_position = 1
          /\ orders[n].target_position = 0
          /\ targets[orders[n].Date] # targets[orders[n].Date - 1]

\* C6: one snapshot per bar processed, in bar order, each with its bar's date and close;
\* a finished run has one snapshot per input bar.
OneSnapshotPerBar ==
    /\ Len(equity_curve) = IF pc = "mtm" THEN i - 1 ELSE i
    /\ \A j \in Curve :
          /\ equity_curve[j].Date = j
          /\ equity_curve[j].Close = ohlcv[j].Close
    /\ pc = "done" => Len(equity_curve) = Len(ohlcv)

\* a finished run whose switch tripped before the last bar
AllBarsSnapshotted ==
    /\ pc = "done"
    /\ Len(equity_curve) = NumBars
    /\ equity_curve[NumBars - 1].KillSwitch

\* C7: every Trade has qty > 0, price > 0 and notional = qty * price.
TradesWellFormed ==
    \A n \in 1..Len(trades) :
        /\ trades[n].qty > 0
        /\ trades[n].price > 0
        /\ trades[n].notional = trades[n].qty * trades[n].price

RunSurvivesInvalidInput ==
    /\ ~(pc = "raised" /\ raised = "ValueError")
    /\ pc = "done" => Len(equity_curve) = Len(ohlcv)

\* C10: every rebalance_to_target call with a target other than 0 or 1 raises.
InvalidTargetAlwaysRaises ==
    \A n \in 1..Len(orders) :
        orders[n].target_position \notin {0, 1} => orders[n].raised = "ValueError"

\* the parameter ranges of the data model: initial_cash > 0, both fractions in (0, 1]
ValidParams(a) ==
    /\ a.cash > 0
    /\ a.max_position_pct.num > 0
    /\ a.max_position_pct.num <= a.max_position_pct.den
    /\ a.max_dd.num > 0
    /\ a.max_dd.num <= a.max_dd.den

\* C11: with initial_cash <= 0 or a risk fraction outside (0, 1] construction raises and
\* no simulation state is created: the run never gets past construction.
InvalidParamsRejected ==
    ~ValidParams(args) =>
        /\ pc \in {"construct", "raised"}
        /\ equity_curve = <<>>
        /\ trades = <<>>

\* a step that is one rebalance_to_target call by an arbitrary caller, and the call
ApiCalled == pc = "api" /\ Len(orders') = Len(orders) + 1

CallMade == orders'[Len(orders')]

\* floor(max_position_pct * (cash + position_qty * open_price) / open_price) for target 1,
\* 0 for target 0, on the ledger before the call
SizedQty(target, open_price) ==
    IF target = 1
    THEN (limits.max_position_pct.num * (cash + position_qty * open_price))
             \div (limits.max_position_pct.den * open_price)
    ELSE 0

TradeRecorded == Len(trades') = Len(trades) + 1

NothingChanged == cash' = cash /\ position_qty' = position_qty /\ trades' = trades

\* C12: a BUY that costs more than the cash held executes floor((cash - commission) /
\* fill_price) shares, fewer than wanted; none when that is <= 0, with nothing changed;
\* otherwise cash falls by qty * fill_price + commission and position_qty rises by qty.
AffordabilityClamp ==
    [][ApiCalled =>
        LET o    == CallMade
            want == SizedQty(o.target_position, o.open_price) - position_qty
            q    == (cash - o.commission) \div o.fill_price
        IN  (/\ ~kill_switch
             /\ o.target_position \in {0, 1}
             /\ want > 0
             /\ want * o.fill_price + o.commission > cash) =>
                /\ q < want
                /\ IF q <= 0
                   THEN NothingChanged /\ o.ret = "None"
                   ELSE /\ TradeRecorded
                        /\ trades'[Len(trades')].side = "BUY"
                        /\ trades'[Len(trades')].qty = q
                        /\ cash' = cash - (q * o.fill_price + o.commission)
                        /\ position_qty' = position_qty + q]_vars

\* a clamped BUY (3 of 20 wanted at 30, cash 9 left) followed by a BUY that cannot afford
\* a single share and is dropped
ClampedThenDropped ==
    /\ Len(orders) = 2
    /\ Len(trades) = 1
    /\ trades[1].qty = 3
    /\ orders[2].target_position = 1
    /\ orders[2].fill_price = Ticks(30)
    /\ orders[2].open_price = Ticks(5)
    /\ orders[2].ret = "None"
    /\ ~kill_switch
    /\ cash = Ticks(9)
    /\ position_qty = 3

\* C13: the quantity wanted is sized from the open price; after an executed trade
\* position_qty is that quantity, or less after a clamped BUY, so after a BUY
\* position_qty * open_price is at most max_position_pct of the equity used for sizing.
SizingAtOpen ==
    [][ApiCalled =>
        LET o       == CallMade
            desired == SizedQty(o.target_position, o.open_price)
            equity  == cash + position_qty * o.open_price
        IN  (~kill_switch /\ o.target_position \in {0, 1}) =>
                IF TradeRecorded
                THEN LET t == trades'[Len(trades')]
                     IN  /\ t.side = (IF desired > position_qty THEN "BUY" ELSE "SELL")
                         /\ \/ position_qty' = desired
                            \/ /\ t.side = "BUY"
                               /\ (desired - position_qty) * o.fill_price + o.commission > cash
                               /\ position_qty' < desired
                         /\ t.side = "BUY" =>
                               position_qty' * o.open_price * limits.max_position_pct.den
                                   <= limits.max_position_pct.num * equity
                ELSE /\ NothingChanged
                     /\ \/ desired = position_qty
                        \/ (desired - position_qty) * o.fill_price + o.commission > cash]_vars

\* cash 100, max_position_pct 0.25, open 5, commission 1, fill at the open: BUY 5, cash 74
SizedBuyHappened ==
    /\ Len(trades) = 1
    /\ trades[1].side = "BUY"
    /\ trades[1].qty = 5
    /\ trades[1].price = Ticks(5)
    /\ orders[Len(orders)].open_price = Ticks(5)
    /\ limits.max_position_pct = Frac(1, 4)
    /\ args.commission = Ticks(1)
    /\ cash = Ticks(74)
    /\ position_qty = 5

\* C20: an executed trade changes cash + position_qty * fill_price by exactly
\* -commission; a call that records no trade changes it by 0.
LedgerConservation ==
    [][ApiCalled =>
        LET o == CallMade
        IN  cash' + position_qty' * o.fill_price =
                cash + position_qty * o.fill_price
                    - (IF TradeRecorded THEN o.commission ELSE 0)]_vars

\* a BUY, a SELL and a call that returned none, with a commission of 1
BoughtSoldAndSkipped ==
    /\ Len(trades) = 2
    /\ trades[1].side = "BUY"
    /\ trades[2].side = "SELL"
    /\ trades[2].price # trades[1].price
    /\ Len(orders) = 3
    /\ orders[3].ret = "None"
    /\ args.commission = Ticks(1)

\* C14: when the quantity wanted equals position_qty, rebalance_to_target returns none
\* and leaves cash, position_qty and trades unchanged; the loop makes no Execution Model
\* call and no order on such a bar; a step that records no trade charges nothing.
NoOpOnZeroDelta ==
    [][/\ (/\ ApiCalled
           /\ ~kill_switch
           /\ CallMade.target_position \in {0, 1}
           /\ SizedQty(CallMade.target_position, CallMade.open_price) = position_qty) =>
              (CallMade.ret = "None" /\ NothingChanged)
       /\ (/\ pc = "exec"
           /\ pending_target # <<>>
           /\ ~kill_switch
           /\ SizedQty(pending_target[1], ohlcv[i].Open) = position_qty) =>
              (orders' = orders /\ raised' = raised /\ pc' = "signal" /\ NothingChanged)
       /\ trades' = trades => (cash' = cash /\ position_qty' = position_qty)]_vars

\* a bar of main on which a held position already had the size wanted: no order dated
\* that bar although the pending target was 1 and the switch was off
HeldThroughBar ==
    /\ pc = "signal"
    /\ i >= 2
    /\ pending_target = <<1>>
    /\ ~kill_switch
    /\ position_qty > 0
    /\ SizedQty(1, ohlcv[i].Open) = position_qty
    /\ \A n \in 1..Len(orders) : orders[n].Date # i
    /\ equity_curve[i].Cash = cash

\* C15: a bar on which either moving average is undefined has target 0 in both modes;
\* in long/short mode the target is -1 only when both averages are defined and
\* fast < slow, and 0 on an exact tie.
WarmUpIsFlat ==
    pc = "signalled" =>
        \A t \in 1..Len(targets) :
            LET defined == t >= args.fast /\ t >= args.slow
                f == SumLast(Closes(ohlcv), t, args.fast) * args.slow
                s == SumLast(Closes(ohlcv), t, args.slow) * args.fast
            IN  /\ ~defined => targets[t] = 0
                /\ ~args.long_only =>
                      /\ targets[t] = 0 - 1 => (defined /\ f < s)
                      /\ (defined /\ f = s) => targets[t] = 0

\* C16: a run whose input has a bar with a non-positive open or close processes no bar:
\* no snapshot and no trade is ever recorded.
MalformedInputRejected ==
    (\E t \in 1..Len(ohlcv) : ohlcv[t].Open <= 0 \/ ohlcv[t].Close <= 0) =>
        (equity_curve = <<>> /\ trades = <<>>)

\* the delta rebalance_to_target computes for order o from the ledger held before it,
\* which is the ledger the snapshot of the order's bar shows
InnerDelta(o) ==
    LET snap   == equity_curve[o.Date]
        equity == snap.Cash + snap.PositionQty * o.open_price
    IN  (IF o.target_position = 1 THEN max_allowed_qty(limits, equity, o.open_price) ELSE 0)
            - snap.PositionQty

\* C17: on every bar the delta the loop computes equals the delta rebalance_to_target
\* computes; the loop never calls it with a zero delta; every BUY was filled at or above
\* the bar's open and every SELL at or below it.
SizingsAgree ==
    /\ \A n \in 1..Len(orders) :
          /\ orders[n].delta = InnerDelta(orders[n])
          /\ orders[n].delta # 0
          /\ orders[n].open_price = ohlcv[orders[n].Date].Open
          /\ orders[n].fill_price =
                apply_slippage(orders[n].open_price,
                               IF InnerDelta(orders[n]) > 0 THEN 1 ELSE 0 - 1,
                               args.slippage_bps).value
    /\ \A k \in 1..Len(trades) :
          /\ \E n \in 1..Len(orders) :
                /\ orders[n].Date = trades[k].date
                /\ orders[n].fill_price = trades[k].price
                /\ trades[k].side = (IF InnerDelta(orders[n]) > 0 THEN "BUY" ELSE "SELL")
          /\ trades[k].side = "BUY" => trades[k].price >= ohlcv[trades[k].date].Open
          /\ trades[k].side = "SELL" => trades[k].price <= ohlcv[trades[k].date].Open

\* a finished run with slippage in which a BUY was filled above the open and a SELL
\* below it
BoughtAboveSoldBelow ==
    /\ pc = "done"
    /\ args.slippage_bps = 200
    /\ \E k \in 1..Len(trades) :
          trades[k].side = "BUY" /\ trades[k].price > ohlcv[trades[k].date].Open
    /\ \E k \in 1..Len(trades) :
          trades[k].side = "SELL" /\ trades[k].price < ohlcv[trades[k].date].Open

\* the bar's execution step is over, the target stored on the bar before was 0 and the
\* switch was still off after the bar's mark_to_market
ExitDue == pc = "signal" /\ i >= 2 /\ targets[i - 1] = 0 /\ ~kill_switch

\* C18: when the target stored on bar t is 0 and kill_switch is false after bar t+1's
\* mark_to_market, position_qty is 0 after bar t+1's execution step: a position held is
\* sold whole in one SELL at that bar's open, cash credited by qty * fill_price -
\* commission.
ExitResponse ==
    ExitDue =>
        LET snap == equity_curve[i]
        IN  /\ position_qty = 0
            /\ snap.PositionQty > 0 =>
                  /\ trades # <<>>
                  /\ LET t == trades[Len(trades)]
                     IN  /\ t.date = i
                         /\ t.side = "SELL"
                         /\ t.qty = snap.PositionQty
                         /\ t.price = apply_slippage(ohlcv[i].Open, 0 - 1,
                                                     args.slippage_bps).value
                         /\ cash = snap.Cash + t.qty * t.price - args.commission
                  /\ \A k \in 1..(Len(trades) - 1) : trades[k].date # i
            /\ snap.PositionQty = 0 => cash = snap.Cash

\* a position sold whole while the cash held was less than the commission
SoldOutWithLittleCash ==
    /\ ExitDue
    /\ equity_curve[i].PositionQty > 0
    /\ equity_curve[i].Cash < args.commission
    /\ position_qty = 0
    /\ trades[Len(trades)].side = "SELL"
    /\ trades[Len(trades)].date = i

\* cash and position_qty after trade t applied to the ledger a snapshot shows
CashAfter(snap, t) ==
    IF t.side = "BUY" THEN snap.Cash - (t.notional + t.commission)
    ELSE snap.Cash + t.notional - t.commission

QtyAfter(snap, t) ==
    IF t.side = "BUY" THEN snap.PositionQty + t.qty ELSE snap.PositionQty - t.qty

\* C19: for every trade dated bar t the snapshot of bar t shows the cash and position_qty
\* held before the trade, the trade's effect first shows in the snapshot of bar t+1 (or in
\* the ledger while bar t is the last one marked), and the switch decided from bar t's
\* close was off: no order is applied on a bar whose snapshot shows the switch on.
SnapshotBeforeTrade ==
    /\ \A k \in 1..Len(trades) :
          LET t == trades[k]
          IN  /\ t.date \in Curve
              /\ LET snap == equity_curve[t.date]
                 IN  /\ snap.Date = t.date
                     /\ ~snap.KillSwitch
                     /\ IF t.date < Len(equity_curve)
                        THEN /\ equity_curve[t.date + 1].Cash = CashAfter(snap, t)
                             /\ equity_curve[t.date + 1].PositionQty = QtyAfter(snap, t)
                        ELSE /\ cash = CashAfter(snap, t)
                             /\ position_qty = QtyAfter(snap, t)
    /\ \A n \in 1..Len(orders) :
          orders[n].Date \in Curve /\ ~equity_curve[orders[n].Date].KillSwitch
    /\ pc = "exec" => (Len(equity_curve) = i /\ equity_curve[i].Cash = cash
                          /\ equity_curve[i].PositionQty = position_qty
                          /\ equity_curve[i].KillSwitch = kill_switch)

\* a BUY at the open of a bar whose snapshot still shows the ledger before it, while
\* the next bar's snapshot shows the ledger after it and the switch on
TradeShowsOneBarLater ==
    \E k \in 1..Len(trades) :
        LET d == trades[k].date
        IN  /\ d < Len(equity_curve)
            /\ trades[k].side = "BUY"
            /\ equity_curve[d].PositionQty = 0
            /\ equity_curve[d].Cash = args.cash
            /\ equity_curve[d + 1].PositionQty = trades[k].qty
            /\ equity_curve[d + 1].Cash < args.cash
            /\ equity_curve[d + 1].KillSwitch

====
